---- MODULE Spec2Model ----
(***************************************************************************)
(* State-machine model of OpenSeaAlertBot.get_nft_alerts and the helpers   *)
(* it calls (send_telegram_msg, update_spreadsheet), from                  *)
(* src/OpenSeaAlertBot.py.                                                 *)
(*                                                                         *)
(* Ratios are kept in hundredths (ratio 16.67 is 1667), prices and         *)
(* balances are whole numbers.  Texts read from the page are sequences of  *)
(* one-character strings.                                                  *)
(***************************************************************************)
EXTENDS Integers, Sequences, FiniteSets, TLC

\* ---------------------------------------------------------------- bounds
\* Number of iterations of the `while True` loop that are explored.
MaxCycles == 2
\* Largest number of <article> elements find_elements returns in a cycle.
MaxItems == 2

\* ---------------------------------------------------------- configuration
\* self.ratio: the configured threshold, in hundredths (Ratio = 20).
self_ratio == 2000
\* self.busd_price: the conversion rate applied to the raw page price.
busd_price == 2

\* ------------------------------------------------------- page input domain
Digits == {"0", "1", "2", "3", "4", "5", "6", "7", "8", "9"}

\* Texts the price element of an item can carry.
PriceTexts ==
    { <<"0">>,
      <<"2", ",", "0", "0", "0">>,
      <<"2", ",", "5", "0", "0">>,
      <<"3", ",", "0", "0", "0">>,
      <<"-", "-">> }

\* Texts the trait-balance element can carry.
BalanceTexts ==
    { <<"1", "0", "0", "0", "0", "0">>,
      <<"9", "9", "9", "8", "0">>,
      <<"1", "0", "0", ",", "0", "0", "0">> }

\* href values of the first <a> of the articles of the collection, in the
\* order the page renders them.
AllLinks == <<"url_a", "url_b", "url_c", "url_d">>

Links == { AllLinks[i] : i \in 1..MaxItems }

\* Sequences of articles driver.find_elements can return once one is visible:
\* the first 1 to MaxItems articles of the collection.
ItemLists == { [i \in 1..n |-> AllLinks[i]] : n \in 1..MaxItems }

ValueError == -1

\* -------------------------------------------------------- pure functions
RECURSIVE DigitsValue(_, _)
\* Value of a sequence of decimal digits, most significant first.
DigitsValue(t, acc) ==
    IF t = <<>> THEN acc
    ELSE DigitsValue(Tail(t),
                     10 * acc + (CHOOSE d \in 0..9 : ToString(d) = Head(t)))

AllDigits(t) == t # <<>> /\ \A i \in 1..Len(t) : t[i] \in Digits

\* text.replace(',', '')
StripCommas(t) == SelectSeq(t, LAMBDA c : c # ",")

\* int(text): no separator is accepted.
int_text(t) == IF AllDigits(t) THEN DigitsValue(t, 0) ELSE ValueError

\* float(text.replace(',', '')) * self.busd_price
listing_price_of(t) ==
    IF AllDigits(StripCommas(t))
    THEN DigitsValue(StripCommas(t), 0) * busd_price
    ELSE ValueError

\* Variant: the quotient is cut after two decimals instead of rounded.
round_ratio_truncated(balance, price) == (100 * balance) \div price

\* round(trait_balance / listing_price, 2), in hundredths; price # 0.
\* An exact tie goes to the even hundredth; on the balances and prices of
\* BalanceTexts and PriceTexts this is the value Python's round returns.
round_ratio(balance, price) ==
    LET q == (100 * balance) \div price
        r == (100 * balance) % price
    IN  IF 2 * r < price THEN q
        ELSE IF 2 * r > price THEN q + 1
        ELSE IF q % 2 = 0 THEN q ELSE q + 1

\* ------------------------------------------------------------------ state
VARIABLES
    pc,              \* position of control inside get_nft_alerts
    exit_cause,      \* why get_nft_alerts ended ("none" while it runs)
    cycle,           \* number of the current iteration of `while True`
    driver,          \* the browser session returned by get_driver
    navigations,     \* number of driver.get calls made
    trait_balance,   \* local trait_balance
    trait_balances,  \* local list trait_balances
    listing_prices,  \* local list listing_prices
    listing_urls,    \* local list listing_urls
    listing_items,   \* the elements the for loop iterates over
    item_idx,        \* position of the for loop in listing_items
    listing_price,   \* local listing_price
    listing_url,     \* local listing_url
    ratio,           \* local ratio (hundredths)
    cell_lists,      \* cell_list_column_1..3 of update_spreadsheet
    worksheet,       \* the cells of the remote worksheet, columns A..C
    evaluated,       \* history: the evaluations logged in this cycle
    dispatched,      \* history: the send_telegram_msg calls of this cycle
    publishes,       \* history: the update_spreadsheet calls of this cycle
    items_timed_out, \* history: the wait for items of this cycle timed out
    page_balance,    \* history: the balance the page showed, and in which cycle
    empty_run,       \* history: consecutive cycles whose wait timed out
    alerts_due,      \* history: per link, evaluations at or above threshold
    alerts_sent      \* history: per link, send_telegram_msg calls of the run

vars ==
    <<pc, exit_cause, cycle, driver, navigations, trait_balance,
      trait_balances, listing_prices, listing_urls, listing_items, item_idx,
      listing_price, listing_url, ratio, cell_lists, worksheet, evaluated,
      dispatched, publishes, items_timed_out, page_balance, empty_run,
      alerts_due, alerts_sent>>

\* The locals of one loop iteration.
locals ==
    <<trait_balance, trait_balances, listing_prices, listing_urls,
      listing_items, item_idx, listing_price, listing_url, ratio>>

\* The history of the current cycle.
cycle_history == <<evaluated, dispatched, publishes, items_timed_out>>

\* The history of the run.
run_history == <<empty_run, alerts_due, alerts_sent>>

\* The history variables.
history == <<cycle_history, page_balance, run_history>>

Columns == {"A", "B", "C"}

\* Rows a publish of at most MaxItems items can address (A2:A{n+1}).
Rows == 2..(MaxItems + 1)

\* A cell nobody has written yet; cyc is the cycle whose publish wrote it.
EmptyCell(col) == [cyc |-> 0, val |-> IF col = "C" THEN "" ELSE 0]

NoCellLists == [col \in Columns |-> <<>>]

Terminal == {"done", "crashed"}

Init ==
    /\ pc = "start"
    /\ exit_cause = "none"
    /\ cycle = 0
    /\ driver = "none"
    /\ navigations = 0
    /\ trait_balance = 0
    /\ trait_balances = <<>>
    /\ listing_prices = <<>>
    /\ listing_urls = <<>>
    /\ listing_items = <<>>
    /\ item_idx = 0
    /\ listing_price = 0
    /\ listing_url = ""
    /\ ratio = 0
    /\ cell_lists = NoCellLists
    /\ worksheet = [col \in Columns |-> [row \in Rows |-> EmptyCell(col)]]
    /\ evaluated = <<>>
    /\ dispatched = <<>>
    /\ publishes = <<>>
    /\ items_timed_out = FALSE
    /\ page_balance = [cycle |-> 0, value |-> 0]
    /\ empty_run = 0
    /\ alerts_due = [l \in Links |-> 0]
    /\ alerts_sent = [l \in Links |-> 0]

\* An exception leaves get_nft_alerts: nothing in it or in main catches it.
Raise(cause) ==
    /\ pc' = "crashed"
    /\ exit_cause' = cause

\* A bare `return` inside get_nft_alerts.
Return(cause) ==
    /\ pc' = "done"
    /\ exit_cause' = cause

Goto(label) ==
    /\ pc' = label
    /\ exit_cause' = exit_cause

\* ---------------------------------------------------------------- actions
\* driver = self.get_driver(); driver.get(collection_url + auction_filer)
GetDriver ==
    /\ pc = "start"
    /\ \E outcome \in {"ok", "driver_error", "navigation_error"} :
         /\ driver' = IF outcome = "driver_error" THEN "none" ELSE "open"
         /\ navigations' = IF outcome = "driver_error" THEN navigations
                           ELSE navigations + 1
         /\ IF outcome = "ok" THEN Goto("wait_collection")
            ELSE Raise("startup")
    /\ UNCHANGED <<cycle, locals, cell_lists, worksheet, history>>

\* try: wait for the header, scroll to the end twice; except: return
WaitForCollection ==
    /\ pc = "wait_collection"
    /\ \E outcome \in {"ok", "timeout", "scroll_error"} :
         CASE outcome = "ok" -> Goto("wait_balance")
           [] outcome = "timeout" -> Return("page_timeout")
           [] outcome = "scroll_error" -> Return("page_error")
    /\ UNCHANGED <<cycle, driver, navigations, locals, cell_lists, worksheet,
                   history>>

\* Variant: the timeout of the balance wait is not caught.
AfterBalanceTimeout_raise == Raise("balance_timeout")

\* except: return, in the try around the wait for the trait balance.
AfterBalanceTimeout == Return("balance_timeout")

\* Variant: the page is loaded again at the top of every iteration.
WaitForBalance_renavigate ==
    /\ pc = "wait_balance"
    /\ cycle < MaxCycles
    /\ cycle' = cycle + 1
    /\ navigations' = navigations + 1
    /\ evaluated' = <<>>
    /\ dispatched' = <<>>
    /\ publishes' = <<>>
    /\ items_timed_out' = FALSE
    /\ \E outcome \in {"ok", "timeout"} :
         IF outcome = "ok" THEN Goto("get_balance")
         ELSE AfterBalanceTimeout
    /\ UNCHANGED <<driver, locals, cell_lists, worksheet, page_balance,
                   run_history>>

\* while True: try: wait for the trait balance; except: return
WaitForBalance ==
    /\ pc = "wait_balance"
    /\ cycle < MaxCycles
    /\ cycle' = cycle + 1
    /\ evaluated' = <<>>
    /\ dispatched' = <<>>
    /\ publishes' = <<>>
    /\ items_timed_out' = FALSE
    /\ \E outcome \in {"ok", "timeout"} :
         IF outcome = "ok" THEN Goto("get_balance")
         ELSE AfterBalanceTimeout
    /\ UNCHANGED <<driver, navigations, locals, cell_lists, worksheet,
                   page_balance, run_history>>

\* Variant: the balance is read in the first cycle only.
GetTraitBalance_once ==
    /\ pc = "get_balance"
    /\ \/ \E t \in BalanceTexts :
            IF int_text(t) = ValueError
            THEN /\ Raise("balance_parse")
                 /\ UNCHANGED <<trait_balance, trait_balances, listing_prices,
                                listing_urls, page_balance>>
            ELSE /\ Goto("wait_items")
                 /\ trait_balance' =
                        IF cycle = 1 THEN int_text(t) ELSE trait_balance
                 /\ page_balance' = [cycle |-> cycle, value |-> int_text(t)]
                 /\ trait_balances' = <<>>
                 /\ listing_prices' = <<>>
                 /\ listing_urls' = <<>>
       \/ /\ Raise("balance_parse")
          /\ UNCHANGED <<trait_balance, trait_balances, listing_prices,
                         listing_urls, page_balance>>
    /\ UNCHANGED <<cycle, driver, navigations, listing_items, item_idx,
                   listing_price, listing_url, ratio, cell_lists, worksheet,
                   cycle_history, run_history>>

\* Variant: the three lists are created once and never emptied.
GetTraitBalance_no_reset ==
    /\ pc = "get_balance"
    /\ \/ \E t \in BalanceTexts :
            IF int_text(t) = ValueError
            THEN /\ Raise("balance_parse")
                 /\ UNCHANGED <<trait_balance, page_balance>>
            ELSE /\ Goto("wait_items")
                 /\ trait_balance' = int_text(t)
                 /\ page_balance' = [cycle |-> cycle, value |-> int_text(t)]
       \/ /\ Raise("balance_parse")
          /\ UNCHANGED <<trait_balance, page_balance>>
    /\ UNCHANGED <<cycle, driver, navigations, trait_balances, listing_prices,
                   listing_urls, listing_items, item_idx, listing_price,
                   listing_url, ratio, cell_lists, worksheet, cycle_history,
                   run_history>>

\* trait_balance = int(<element>.text); the three lists are emptied
GetTraitBalance ==
    /\ pc = "get_balance"
    /\ \/ \E t \in BalanceTexts :
            IF int_text(t) = ValueError
            THEN /\ Raise("balance_parse")
                 /\ UNCHANGED <<trait_balance, trait_balances, listing_prices,
                                listing_urls, page_balance>>
            ELSE /\ Goto("wait_items")
                 /\ trait_balance' = int_text(t)
                 /\ page_balance' = [cycle |-> cycle, value |-> int_text(t)]
                 /\ trait_balances' = <<>>
                 /\ listing_prices' = <<>>
                 /\ listing_urls' = <<>>
       \/ \* find_element raises: the element is gone
          /\ Raise("balance_parse")
          /\ UNCHANGED <<trait_balance, trait_balances, listing_prices,
                         listing_urls, page_balance>>
    /\ UNCHANGED <<cycle, driver, navigations, listing_items, item_idx,
                   listing_price, listing_url, ratio, cell_lists, worksheet,
                   cycle_history, run_history>>

\* Variant: the timeout of the wait for <article> ends the run.
AfterItemsTimeout_return == Return("items_timeout")

\* Where the loop goes when the wait for <article> times out:
\* log, sleep(3), continue.
AfterItemsTimeout == Goto("wait_balance")

\* try: wait for an <article>; except: sleep(3); continue
\* then: for listing_item in driver.find_elements(By.TAG_NAME, 'article')
WaitForItems ==
    /\ pc = "wait_items"
    /\ \/ \E items \in ItemLists :
            /\ listing_items' = items
            /\ item_idx' = 1
            /\ Goto("extract")
            /\ empty_run' = 0
            /\ UNCHANGED items_timed_out
       \/ /\ AfterItemsTimeout
          /\ items_timed_out' = TRUE
          /\ empty_run' = empty_run + 1
          /\ UNCHANGED <<listing_items, item_idx>>
    /\ UNCHANGED <<cycle, driver, navigations, trait_balance, trait_balances,
                   listing_prices, listing_urls, listing_price, listing_url,
                   ratio, cell_lists, worksheet, evaluated, dispatched,
                   publishes, page_balance, alerts_due, alerts_sent>>

\* Wait for the price element, read the price text and the href of the item.
\* Nothing catches the exceptions these reads raise.
ExtractItem ==
    /\ pc = "extract"
    /\ \/ \E t \in PriceTexts :
            IF listing_price_of(t) = ValueError
            THEN /\ Raise("item_extraction")
                 /\ UNCHANGED <<listing_price, listing_url>>
            ELSE /\ listing_price' = listing_price_of(t)
                 /\ \/ /\ listing_url' = listing_items[item_idx]
                       /\ Goto("evaluate")
                    \/ \* the item has no <a>
                       /\ Raise("item_extraction")
                       /\ UNCHANGED listing_url
       \/ \* the price element never shows up or is missing from the item
          /\ Raise("item_extraction")
          /\ UNCHANGED <<listing_price, listing_url>>
    /\ UNCHANGED <<cycle, driver, navigations, trait_balance, trait_balances,
                   listing_prices, listing_urls, listing_items, item_idx,
                   ratio, cell_lists, worksheet, history>>

\* The message handed to send_telegram_msg and logged at line 355.
collection_stats ==
    [cycle |-> cycle, idx |-> item_idx, price |-> listing_price,
     balance |-> trait_balance, ratio |-> ratio', link |-> listing_url]

\* Variant: the comparison excludes the threshold itself.
should_alert_exclusive(r) == r > self_ratio

\* Variant: a link that was alerted before is not alerted again.
should_alert_once(r) ==
    /\ r >= self_ratio
    /\ alerts_sent[listing_url] = 0

\* The condition of the `if` that guards send_telegram_msg.
should_alert(r) == r >= self_ratio

\* ratio = round(trait_balance / listing_price, 2); if ratio >= self.ratio
EvaluateItem ==
    /\ pc = "evaluate"
    /\ IF listing_price = 0
       THEN \* ZeroDivisionError: float division by zero
            /\ Raise("zero_division")
            /\ UNCHANGED <<ratio, evaluated, alerts_due>>
       ELSE /\ ratio' = round_ratio(trait_balance, listing_price)
            /\ evaluated' = Append(evaluated, collection_stats)
            /\ alerts_due' =
                   [alerts_due EXCEPT ![listing_url] =
                       IF ratio' >= self_ratio THEN @ + 1 ELSE @]
            /\ IF should_alert(ratio') THEN Goto("send") ELSE Goto("append")
    /\ UNCHANGED <<cycle, driver, navigations, trait_balance, trait_balances,
                   listing_prices, listing_urls, listing_items, item_idx,
                   listing_price, listing_url, cell_lists, worksheet,
                   dispatched, publishes, items_timed_out, page_balance,
                   empty_run, alerts_sent>>

\* What send_telegram_msg does to its caller, by outcome of requests.get:
\* a response (accepted or rejected by Telegram) is returned, a connection
\* error is raised and nothing catches it.
AfterSend(outcome) ==
    IF outcome = "network_error" THEN Raise("dispatch") ELSE Goto("append")

\* self.send_telegram_msg(msg=collection_stats)
SendTelegramMsg ==
    /\ pc = "send"
    /\ \E outcome \in {"ok", "rejected", "network_error"} :
         /\ dispatched' =
                Append(dispatched,
                       [cycle |-> cycle, idx |-> item_idx,
                        price |-> listing_price, balance |-> trait_balance,
                        ratio |-> ratio, link |-> listing_url])
         /\ AfterSend(outcome)
    /\ alerts_sent' = [alerts_sent EXCEPT ![listing_url] = @ + 1]
    /\ UNCHANGED <<cycle, driver, navigations, locals, cell_lists, worksheet,
                   evaluated, publishes, items_timed_out, page_balance,
                   empty_run, alerts_due>>

\* Variant: the publish is indented into the for loop.
AppendValues_publish_in_loop ==
    /\ pc = "append"
    /\ listing_prices' = Append(listing_prices, listing_price)
    /\ trait_balances' = Append(trait_balances, trait_balance)
    /\ listing_urls' = Append(listing_urls, listing_url)
    /\ item_idx' = item_idx + 1
    /\ Goto("publish")
    /\ UNCHANGED <<cycle, driver, navigations, trait_balance, listing_items,
                   listing_price, listing_url, ratio, cell_lists, worksheet,
                   history>>

\* The three appends, then the next item or the end of the for loop.
AppendValues ==
    /\ pc = "append"
    /\ listing_prices' = Append(listing_prices, listing_price)
    /\ trait_balances' = Append(trait_balances, trait_balance)
    /\ listing_urls' = Append(listing_urls, listing_url)
    /\ item_idx' = item_idx + 1
    /\ IF item_idx < Len(listing_items) THEN Goto("extract")
       ELSE Goto("publish")
    /\ UNCHANGED <<cycle, driver, navigations, trait_balance, listing_items,
                   listing_price, listing_url, ratio, cell_lists, worksheet,
                   history>>

\* update_spreadsheet up to the assignment of the cell values: open the
\* sheet, take the columns of df, fetch the three ranges, fill them in.
UpdateSpreadsheet ==
    /\ pc = "publish"
    /\ publishes' =
           Append(publishes,
                  [cycle |-> cycle, prices |-> listing_prices,
                   balances |-> trait_balances, urls |-> listing_urls])
    /\ \/ /\ cell_lists' = [col \in Columns |->
                               CASE col = "A" -> listing_prices
                                 [] col = "B" -> trait_balances
                                 [] col = "C" -> listing_urls]
          /\ Goto("update_cells_1")
       \/ \* open, worksheet or range fails
          /\ Raise("publish")
          /\ UNCHANGED cell_lists
    /\ UNCHANGED <<cycle, driver, navigations, locals, worksheet, evaluated,
                   dispatched, items_timed_out, page_balance, run_history>>

\* Variant: the rows below the new snapshot are blanked.
update_cells_clearing(col) ==
    [worksheet EXCEPT ![col] =
        [row \in Rows |->
            IF row - 1 <= Len(cell_lists[col])
            THEN [cyc |-> cycle, val |-> cell_lists[col][row - 1]]
            ELSE EmptyCell(col)]]

\* The worksheet after worksheet.update_cells(<cell list of column col>).
update_cells(col) ==
    [worksheet EXCEPT ![col] =
        [row \in Rows |->
            IF row - 1 <= Len(cell_lists[col])
            THEN [cyc |-> cycle, val |-> cell_lists[col][row - 1]]
            ELSE worksheet[col][row]]]

\* One of the three worksheet.update_cells calls, in the order A, B, C.
UpdateCells(label, col, next) ==
    /\ pc = label
    /\ \/ /\ worksheet' = update_cells(col)
          /\ Goto(next)
          /\ cell_lists' = IF next = "wait_balance" THEN NoCellLists
                           ELSE cell_lists
       \/ \* the request fails
          /\ Raise("publish")
          /\ UNCHANGED <<worksheet, cell_lists>>
    /\ UNCHANGED <<cycle, driver, navigations, locals, history>>

UpdateCells1 == UpdateCells("update_cells_1", "A", "update_cells_2")

UpdateCells2 == UpdateCells("update_cells_2", "B", "update_cells_3")

UpdateCells3 == UpdateCells("update_cells_3", "C", "wait_balance")

Next ==
    \/ GetDriver
    \/ WaitForCollection
    \/ WaitForBalance
    \/ GetTraitBalance
    \/ WaitForItems
    \/ ExtractItem
    \/ EvaluateItem
    \/ SendTelegramMsg
    \/ AppendValues
    \/ UpdateSpreadsheet
    \/ UpdateCells1
    \/ UpdateCells2
    \/ UpdateCells3

Spec == Init /\ [][Next]_vars

\* ------------------------------------------------- helpers of the claims
EvalIdx == 1..Len(evaluated)

SentIdx == 1..Len(dispatched)

\* The send_telegram_msg calls made for item i of the current cycle.
CallsFor(i) == { k \in SentIdx : dispatched[k].idx = i }

\* The item whose `if` was decided and whose dispatch has not started yet.
AwaitingSend(e) == pc = "send" /\ e.idx = item_idx

\* Nothing was evaluated, dispatched, published or written in this cycle.
SilentCycle ==
    /\ evaluated = <<>>
    /\ dispatched = <<>>
    /\ publishes = <<>>
    /\ \A col \in Columns : \A row \in Rows :
          worksheet[col][row].cyc = 0 \/ worksheet[col][row].cyc # cycle

\* ----------------------------------------------------------------- claims
\* C1: for every item evaluated in every cycle, send_telegram_msg is called
\* for that item if and only if its ratio is greater than or equal to the
\* threshold (inclusive), whatever the other items and earlier cycles were.
C1_AlertIffRatioAtLeastThreshold ==
    /\ \A k \in EvalIdx :
         LET e == evaluated[k] IN
           /\ e.cycle = cycle
           /\ IF e.ratio >= self_ratio
              THEN IF AwaitingSend(e) THEN CallsFor(e.idx) = {}
                   ELSE Cardinality(CallsFor(e.idx)) = 1
              ELSE CallsFor(e.idx) = {}
    /\ \A k \in SentIdx :
         \E j \in EvalIdx : evaluated[j] = dispatched[k]

\* In a cycle after the first, an item whose ratio equals the threshold was
\* evaluated and alerted, after an item below the threshold was evaluated and
\* not alerted.
C1_Witness ==
    /\ cycle > 1
    /\ pc = "publish"
    /\ \E k, j \in EvalIdx :
        /\ j < k
        /\ evaluated[k].ratio = self_ratio
        /\ CallsFor(evaluated[k].idx) # {}
        /\ evaluated[j].ratio < self_ratio
        /\ CallsFor(evaluated[j].idx) = {}

\* C2: a failure to extract the price or the link of one item does not end
\* the cycle or the loop; only that item is dropped.
C2_ItemFailureDropsOnlyTheItem ==
    ~(pc \in Terminal /\ exit_cause = "item_extraction")

\* C3: a failure of send_telegram_msg never aborts the cycle or the loop.
C3_DispatchFailureNeverAborts ==
    ~(pc \in Terminal /\ exit_cause = "dispatch")

\* C4: a failure of update_spreadsheet ends that cycle only; the loop does
\* not terminate and goes on to the next cycle.
C4_PublishFailureEndsCycleOnly ==
    ~(pc \in Terminal /\ exit_cause = "publish")

\* C5: a timeout of the wait for listing items does not terminate the loop:
\* the loop goes back to the top of `while True`, and in a cycle that timed
\* out this way nothing is evaluated, no alert is sent and no publish is made.
C5_EmptyCycleIsRetriedSilently ==
    items_timed_out
        => (pc = "wait_balance" /\ exit_cause = "none" /\ SilentCycle)

\* Two consecutive cycles timed out waiting for items and the loop is again
\* at the top of `while True`.
C5_Witness ==
    /\ items_timed_out
    /\ empty_run >= 2
    /\ pc = "wait_balance"

\* C6: the loop terminates only when the page wait (the try block around it)
\* or the balance wait fails; no other failure ends it.
C6_OnlyStartupWaitsTerminate ==
    (pc \in Terminal /\ exit_cause # "startup")
        => exit_cause \in {"page_timeout", "page_error", "balance_timeout"}

\* C7: when the page wait or the balance wait times out, get_nft_alerts
\* returns normally, and nothing of the cycle that was starting is evaluated,
\* dispatched or published.
C7_StartupTimeoutReturnsSilently ==
    /\ exit_cause = "page_timeout"
          => /\ pc = "done"
             /\ cycle = 0
             /\ SilentCycle
             /\ \A col \in Columns : \A row \in Rows :
                   worksheet[col][row] = EmptyCell(col)
    /\ exit_cause = "balance_timeout"
          => (pc = "done" /\ SilentCycle)

\* The balance wait of a later cycle timed out after an earlier cycle had
\* alerted and published.
C7_Witness ==
    /\ pc = "done"
    /\ exit_cause = "balance_timeout"
    /\ cycle > 1
    /\ \E l \in Links : alerts_sent[l] > 0
    /\ \E col \in Columns : \E row \in Rows : worksheet[col][row].cyc # 0

\* C8: a price of zero never reaches the ratio computation, and the division
\* is never executed with price 0.
C8_ZeroPriceNeverEvaluated ==
    /\ ~(pc = "evaluate" /\ listing_price = 0)
    /\ exit_cause # "zero_division"

\* The send_telegram_msg calls of the current cycle for link l.
CallsForLink(l) == { k \in SentIdx : dispatched[k].link = l }

\* Link l was evaluated at or above the threshold in the current cycle and
\* its `if` has been passed.
AlertingNow(l) ==
    \E k \in EvalIdx :
        /\ evaluated[k].link = l
        /\ evaluated[k].ratio >= self_ratio
        /\ ~AwaitingSend(evaluated[k])

\* C9: alerts are neither deduplicated nor batched: a link whose ratio was at
\* or above the threshold in k evaluations (one per cycle) has exactly k
\* dispatch calls in the run, exactly one in each of those cycles.
C9_OneAlertPerCyclePerItem ==
    \A l \in Links :
        /\ alerts_sent[l] =
              IF pc = "send" /\ listing_url = l THEN alerts_due[l] - 1
              ELSE alerts_due[l]
        /\ Cardinality(CallsForLink(l)) = IF AlertingNow(l) THEN 1 ELSE 0

\* The same link was at or above the threshold in two consecutive completed
\* cycles and has two dispatch calls, the second in the second cycle.
C9_Witness ==
    \E l \in Links :
        /\ cycle = 2
        /\ alerts_due[l] = 2
        /\ alerts_sent[l] = 2
        /\ AlertingNow(l)
        /\ pc = "wait_balance"

\* C10: no row of the worksheet ever shows columns written by the publishes
\* of different cycles.
C10_RowFromOneSnapshot ==
    \A row \in Rows : \A c1, c2 \in Columns :
        (worksheet[c1][row].cyc # 0 /\ worksheet[c2][row].cyc # 0)
            => worksheet[c1][row].cyc = worksheet[c2][row].cyc

\* The column of the snapshot of the current cycle that goes to col.
SnapshotColumn(col) ==
    CASE col = "A" -> listing_prices
      [] col = "B" -> trait_balances
      [] col = "C" -> listing_urls

\* Column col holds the snapshot in rows 2..N+1, written by this cycle.
ColumnPublished(col) ==
    \A row \in Rows :
        row - 1 <= Len(SnapshotColumn(col))
            => worksheet[col][row] =
                  [cyc |-> cycle, val |-> SnapshotColumn(col)[row - 1]]

\* A step that changes the worksheet changes one column, puts the snapshot
\* in its rows 2..N+1 and leaves its other rows as they were.
WritesOnlySnapshotRows ==
    worksheet' # worksheet =>
        \E col \in Columns :
            /\ \A other \in Columns \ {col} :
                  worksheet'[other] = worksheet[other]
            /\ \A row \in Rows :
                  worksheet'[col][row] =
                      IF row - 1 <= Len(SnapshotColumn(col))
                      THEN [cyc |-> cycle,
                            val |-> SnapshotColumn(col)[row - 1]]
                      ELSE worksheet[col][row]

\* update_spreadsheet has returned in this cycle.
PublishReturned == pc = "wait_balance" /\ publishes # <<>>

\* C11: a publish of N items overwrites exactly rows 2..N+1 of the three
\* columns with the snapshot and leaves every other row unchanged, so the
\* rows below a shorter snapshot keep the values of the earlier cycle.
C11_PublishOverwritesExactlyItsRows ==
    /\ [][WritesOnlySnapshotRows]_vars
    /\ [](PublishReturned => \A col \in Columns : ColumnPublished(col))

\* The second cycle published one item after the first had published two:
\* row 2 is of the second cycle, row 3 still holds the first cycle's values.
C11_Witness ==
    /\ PublishReturned
    /\ cycle = 2
    /\ Len(listing_prices) = 1
    /\ \A col \in Columns :
          /\ worksheet[col][2].cyc = 2
          /\ worksheet[col][3].cyc = 1
          /\ worksheet[col][3] # EmptyCell(col)

\* The wait for listing items of the current cycle succeeded.
ItemsFound ==
    \/ pc \in {"extract", "evaluate", "send", "append", "publish",
               "update_cells_1", "update_cells_2", "update_cells_3"}
    \/ pc = "wait_balance" /\ cycle >= 1 /\ ~items_timed_out
    \/ pc = "crashed" /\ exit_cause \in {"item_extraction", "zero_division",
                                         "dispatch", "publish"}

\* The current cycle is over: the loop is back at its top or has ended.
CycleOver == pc \in Terminal \cup {"wait_balance"}

\* The rows a snapshot of everything evaluated in this cycle has.
EvaluatedRows ==
    [prices |-> [k \in EvalIdx |-> evaluated[k].price],
     balances |-> [k \in EvalIdx |-> evaluated[k].balance],
     urls |-> [k \in EvalIdx |-> evaluated[k].link]]

\* C12: in every cycle whose wait for listing items succeeded, publish is
\* attempted exactly once, after all items of the cycle were evaluated, and
\* the snapshot holds every evaluated item, alerted or not.
C12_PublishOncePerNonEmptyCycle ==
    /\ Len(publishes) <= 1
    /\ publishes # <<>> =>
          /\ Len(evaluated) = Len(listing_items)
          /\ publishes[1].prices = EvaluatedRows.prices
          /\ publishes[1].balances = EvaluatedRows.balances
          /\ publishes[1].urls = EvaluatedRows.urls
    /\ (ItemsFound /\ CycleOver) => Len(publishes) = 1

\* C13: the browser session is acquired once per run, is never recreated,
\* and has been released whenever the loop has ended, also when it ended
\* because the page wait or the balance wait timed out.
C13_SessionReleasedOnEveryExit ==
    /\ (pc # "start" /\ exit_cause # "startup") => driver # "none"
    /\ (pc \in Terminal /\ exit_cause # "startup") => driver # "open"

\* C14: driver.get is called exactly once per run, before the first cycle;
\* no cycle, also none that follows an empty-market timeout, calls it again.
C14_NavigatesOnceBeforeFirstCycle ==
    /\ navigations <= 1
    /\ cycle >= 1 => navigations = 1
    /\ (pc # "start" /\ driver = "open") => navigations = 1

\* The second cycle has started after the first timed out waiting for items,
\* and the page was loaded once.
C14_Witness ==
    /\ cycle = 2
    /\ empty_run = 1
    /\ pc = "wait_items"
    /\ navigations = 1

\* The balance of the current cycle has been read.
BalanceRead ==
    \/ ItemsFound
    \/ pc = "wait_items"
    \/ pc = "wait_balance" /\ cycle >= 1

\* C15: once the balance of a cycle is read, trait_balance is the value the
\* page showed in that same cycle and stays so; every ratio of the cycle and
\* every balance of its snapshot, as built, as published and as written to
\* the sheet, is that value.
C15_BalanceIsOfTheCurrentCycle ==
    BalanceRead =>
        /\ page_balance.cycle = cycle
        /\ trait_balance = page_balance.value
        /\ \A k \in EvalIdx :
              /\ evaluated[k].balance = page_balance.value
              /\ evaluated[k].ratio =
                    round_ratio(page_balance.value, evaluated[k].price)
        /\ \A k \in 1..Len(trait_balances) :
              trait_balances[k] = page_balance.value
        /\ \A k \in 1..Len(publishes) :
              \A i \in 1..Len(publishes[k].balances) :
                  publishes[k].balances[i] = page_balance.value
        /\ \A row \in Rows :
              worksheet["B"][row].cyc = cycle
                  => worksheet["B"][row].val = page_balance.value

\* The second cycle read another balance than the first and published it:
\* row 2 holds the balance of the second cycle, row 3 that of the first.
C15_Witness ==
    /\ PublishReturned
    /\ cycle = 2
    /\ worksheet["B"][2] = [cyc |-> 2, val |-> page_balance.value]
    /\ worksheet["B"][3].cyc = 1
    /\ worksheet["B"][3].val # page_balance.value

\* Send_telegram_msg was called for evaluation e, or is about to be.
Alerted(e) == AwaitingSend(e) \/ CallsFor(e.idx) # {}

\* r (hundredths) is balance / price rounded to two decimals.
NearestHundredth(r, balance, price) ==
    /\ 2 * (100 * balance - r * price) <= price
    /\ 2 * (r * price - 100 * balance) <= price

\* C16: the ratio of an item is balance / converted price rounded to two
\* decimals, and the alert decision compares the rounded ratio with the
\* threshold: balance 100000 with price 4000 gives 25.0 and alerts, with
\* price 6000 gives 16.67 and does not alert, and an item whose unrounded
\* ratio is below the threshold but rounds up to it alerts.
C16_RoundedRatioDecides ==
    \A k \in EvalIdx :
        LET e == evaluated[k] IN
          \* 2,000, 2,500 and 3,000 on the page, times the rate 2
          /\ e.price \in {4000, 5000, 6000}
          /\ NearestHundredth(e.ratio, e.balance, e.price)
          /\ Alerted(e) <=> e.ratio >= self_ratio
          /\ (e.balance = 100000 /\ e.price = 4000)
                => (e.ratio = 2500 /\ Alerted(e))
          /\ (e.balance = 100000 /\ e.price = 6000)
                => (e.ratio = 1667 /\ ~Alerted(e))
          /\ (/\ 100 * e.balance < self_ratio * e.price
              /\ NearestHundredth(self_ratio, e.balance, e.price))
                => (e.ratio = self_ratio /\ Alerted(e))

\* The first cycle, with balance 100000, published an alerted item of price
\* 4000 and an item of price 6000 that was not alerted; the second cycle
\* alerted an item of ratio 19.996, rounded to 20.0.
C16_Witness ==
    /\ cycle = 2
    /\ pc = "publish"
    /\ worksheet["A"][2] = [cyc |-> 1, val |-> 4000]
    /\ worksheet["A"][3] = [cyc |-> 1, val |-> 6000]
    /\ worksheet["B"][2] = [cyc |-> 1, val |-> 100000]
    /\ alerts_sent[AllLinks[1]] = 2
    /\ alerts_sent[AllLinks[2]] = 0
    /\ Len(evaluated) = 1
    /\ evaluated[1].balance = 99980
    /\ evaluated[1].price = 5000
    /\ evaluated[1].ratio = self_ratio
    /\ CallsFor(1) # {}

ItemLoop == {"extract", "evaluate", "send", "append"}

Publishing == {"publish", "update_cells_1", "update_cells_2", "update_cells_3"}

\* Every item before position i was evaluated and, if it alerts, its
\* send_telegram_msg call has been made and has returned.
DoneBefore(i) ==
    \A j \in 1..(i - 1) :
        /\ j \in EvalIdx
        /\ evaluated[j].idx = j
        /\ evaluated[j].ratio >= self_ratio => CallsFor(j) # {}

\* C17: processing is strictly sequential: item i+1 is extracted only after
\* item i's dispatch has returned, the publish of a cycle begins only after
\* every item was evaluated and every alert dispatched, and the loop is back
\* at its top, where the next cycle begins, only after the publish returned.
C17_StrictlySequential ==
    /\ pc \in {"extract", "evaluate"} =>
          (Len(evaluated) = item_idx - 1 /\ DoneBefore(item_idx))
    /\ pc \in {"send", "append"} =>
          (Len(evaluated) = item_idx /\ DoneBefore(item_idx))
    /\ pc \in ItemLoop => (publishes = <<>> /\ cell_lists = NoCellLists)
    /\ (pc \in Publishing \/ publishes # <<>>) =>
          /\ Len(evaluated) = Len(listing_items)
          /\ DoneBefore(Len(listing_items) + 1)
    /\ (pc = "wait_balance" /\ cycle >= 1 /\ ~items_timed_out) =>
          /\ publishes # <<>>
          /\ cell_lists = NoCellLists
          /\ \A col \in Columns : ColumnPublished(col)
    /\ pc \in {"get_balance", "wait_items"} =>
          (evaluated = <<>> /\ dispatched = <<>> /\ publishes = <<>>
             /\ cell_lists = NoCellLists)

\* In the second cycle, begun after the publish of the first returned, the
\* second item is about to be extracted and the alert of the first is sent.
C17_Witness ==
    /\ cycle = 2
    /\ pc = "extract"
    /\ item_idx = 2
    /\ CallsFor(1) # {}
    /\ \A col \in Columns : worksheet[col][2].cyc = 1

\* The number of items of this cycle whose three values were appended.
FullyEvaluated ==
    IF pc \in {"send", "append"} \/ (pc = "crashed" /\ exit_cause = "dispatch")
    THEN Len(evaluated) - 1
    ELSE Len(evaluated)

\* The three lists have one entry per fully evaluated item of this cycle, in
\* the order of evaluation.
ColumnsMatchCycle ==
    /\ Len(listing_prices) = FullyEvaluated
    /\ Len(trait_balances) = FullyEvaluated
    /\ Len(listing_urls) = FullyEvaluated
    /\ \A k \in 1..FullyEvaluated :
          /\ evaluated[k].cycle = cycle
          /\ evaluated[k].idx = k
          /\ listing_prices[k] = evaluated[k].price
          /\ trait_balances[k] = evaluated[k].balance
          /\ listing_urls[k] = evaluated[k].link

\* Every published snapshot has three columns of one length, the rows of
\* this cycle's evaluations.
SnapshotsOfThisCycle ==
    \A k \in 1..Len(publishes) :
        /\ publishes[k].cycle = cycle
        /\ publishes[k].prices = EvaluatedRows.prices
        /\ publishes[k].balances = EvaluatedRows.balances
        /\ publishes[k].urls = EvaluatedRows.urls

\* C18 as stated: at every point of a cycle the three lists have the length
\* of the items fully evaluated so far in that cycle, and they are empty at
\* the start of every cycle.
C18_ColumnsMatchAtEveryPoint ==
    cycle >= 1 => (ColumnsMatchCycle /\ SnapshotsOfThisCycle)

\* C18 amended: from the point of a cycle where the three lists are created
\* anew (after the balance is read, before the wait for items) the three
\* lists have one entry per item fully evaluated so far in that cycle, in
\* evaluation order; they are empty when the wait for items starts, and a
\* published snapshot holds rows of its own cycle only, each with its three
\* values.
C18_ColumnsMatchOnceCreated ==
    /\ BalanceRead => (ColumnsMatchCycle /\ SnapshotsOfThisCycle)
    /\ pc = "wait_items" =>
          (listing_prices = <<>> /\ trait_balances = <<>>
             /\ listing_urls = <<>>)

\* The first cycle published two rows; in the second cycle one item is fully
\* evaluated and the lists hold that one row.
C18_Witness ==
    /\ cycle = 2
    /\ pc = "extract"
    /\ item_idx = 2
    /\ Len(listing_prices) = 1
    /\ \A col \in Columns : worksheet[col][3].cyc = 1

====
